---- MODULE Spec2Model ----
(***************************************************************************)
(* State-machine model of the CouchPotato telegram bot: the ACL (allowed   *)
(* and revoked users, persisted to acl.json), the per-user session cache   *)
(* (node-cache, stdTTL 120) and the command / free-text handlers.          *)
(* A step of the model is one inbound chat event handled synchronously,    *)
(* the completion of one awaited remote call, the completion of one        *)
(* asynchronous file write, or the passage of time.                        *)
(***************************************************************************)
EXTENDS Integers, Sequences, FiniteSets, Bags, TLC

(* ---------------------------------------------------------------------- *)
(* Bounds of the model                                                     *)
(* ---------------------------------------------------------------------- *)
NUsers == 2
TickStep == 60
MaxWrites == 1
MaxCalls == 1

(* ---------------------------------------------------------------------- *)
(* Program constants                                                       *)
(* ---------------------------------------------------------------------- *)
StdTTL == 120

MOVIE_SEARCH == "cpMovieSearch"
MOVIE == "cpMovie"
PROFILE == "cpProfile"
REVOKE == "adminRevoke"
REVOKE_CONFIRM == "adminRevokeConfirm"
UNREVOKE == "adminUnrevoke"
UNREVOKE_CONFIRM == "adminUnrevokeConfirm"

Users == 1..NUsers
\* the users whose conversation with the bot is followed; the other users
\* take part through /auth and as entries of the ACL
Chatters == {1}
NoOwner == 0
Undefined == 0
Null == -1
Password == "secret"
Passwords == {"secret", "guess"}
Names == {"ann", "bob"}

VARIABLES names, owner, allowedUsers, revokedUsers, aclFile, writes,
          cache, calls, ev, out, prompted

vars == <<names, owner, allowedUsers, revokedUsers, aclFile, writes,
          cache, calls, ev, out, prompted>>

(* ---------------------------------------------------------------------- *)
(* JavaScript array helpers                                                *)
(* ---------------------------------------------------------------------- *)
\* Array.prototype.indexOf: 0-based index of the first match, -1 if none
IndexOf(s, x) ==
  IF \E i \in 1..Len(s) : s[i] = x
  THEN (CHOOSE i \in 1..Len(s) : s[i] = x /\ \A j \in 1..(i - 1) : s[j] # x) - 1
  ELSE -1

\* Array.prototype.splice(j, 1): a negative j counts from the end
Splice1(s, j) ==
  LET start == IF j < 0 THEN (IF Len(s) + j < 0 THEN 0 ELSE Len(s) + j) ELSE j
  IN IF start >= Len(s) THEN s
     ELSE SubSeq(s, 1, start) \o SubSeq(s, start + 2, Len(s))

\* s[j] on an array of user ids: undefined when j is out of range
UserAt(s, j) == IF j >= 0 /\ j < Len(s) THEN s[j + 1] ELSE Undefined

\* duplicate-free sequences over a set, of length up to n
RECURSIVE SeqsUpTo(_, _)
SeqsUpTo(S, n) ==
  IF n = 0 THEN {<<>>}
  ELSE LET shorter == SeqsUpTo(S, n - 1)
       IN shorter \cup {Append(s, x) : s \in shorter, x \in S}

Range(s) == {s[i] : i \in 1..Len(s)}
NoDup(s) == \A i, j \in 1..Len(s) : i # j => s[i] # s[j]

(* ---------------------------------------------------------------------- *)
(* Messages handed to bot.sendMessage                                      *)
(* ---------------------------------------------------------------------- *)
\* sendMessage(chatId, message, opts): text is the i18n key of the message,
\* body its variable part, kb the custom keyboard (rows of labels)
sendMessage(chatId, text, body, kb) ==
  [to |-> chatId, text |-> text, err |-> FALSE, body |-> body, kb |-> kb, n |-> 0]

\* replyWithError: the message carries the '*Oh no!*' marker
replyWithError(userId, text) ==
  [to |-> userId, text |-> text, err |-> TRUE, body |-> <<>>, kb |-> <<>>, n |-> 0]

getTelegramName(user) == IF user = Undefined THEN "undefined" ELSE names[user]

(* ---------------------------------------------------------------------- *)
(* Access control list                                                     *)
(* ---------------------------------------------------------------------- *)
isAuthorized(userId) == \E i \in 1..Len(allowedUsers) : allowedUsers[i] = userId

\* isRevoked answering false for everybody
isRevokedNever(userId) == FALSE

isRevoked(userId) == \E i \in 1..Len(revokedUsers) : revokedUsers[i] = userId

\* JSON.stringify(acl): an undefined array element is written as null
Stringify(allowed, revoked) ==
  [allowedUsers |-> [i \in 1..Len(allowed) |->
                       IF allowed[i] = Undefined THEN Null ELSE allowed[i]],
   revokedUsers |-> [i \in 1..Len(revoked) |->
                       IF revoked[i] = Undefined THEN Null ELSE revoked[i]]]

\* updateACL: fs.writeFile is asynchronous; the serialized snapshot is
\* queued and reaches the file when the write completes
updateACL(w, allowed, revoked) == w \cup {Stringify(allowed, revoked)}

\* promptOwnerConfig: the claim-ownership prompt, sent while no owner is set
promptOwnerConfig(userId) ==
  IF owner = NoOwner
  THEN <<sendMessage(userId, "ownerConfig", <<>>, <<>>)>>
  ELSE <<>>

verifyUser(userId) ==
  IF ~isAuthorized(userId)
  THEN <<replyWithError(userId, "notAuthorized")>>
  ELSE <<>>

verifyAdmin(userId) ==
  (IF isAuthorized(userId) THEN promptOwnerConfig(userId) ELSE <<>>)
  \o (IF owner # userId THEN <<replyWithError(userId, "adminOnly")>> ELSE <<>>)

(* ---------------------------------------------------------------------- *)
(* Session cache (node-cache, stdTTL 120)                                  *)
(* ---------------------------------------------------------------------- *)
CacheItems == {"movieId", "movieList", "movieProfileList", "state",
               "revokedUserName", "revokeUserList", "unrevokeUserList"}

NoValue(item) ==
  CASE item = "movieId" -> 0
    [] item \in {"state", "revokedUserName"} -> ""
    [] OTHER -> <<>>

Absent(item) == [p |-> FALSE, v |-> NoValue(item), age |-> 0]

\* cache.get of a cache whose entries never expire (stdTTL 0)
cacheHasNoExpiry(c, item, userId) == c[<<item, userId>>].p

\* cache.get: an entry older than its TTL is not returned
cacheHas(c, item, userId) ==
  c[<<item, userId>>].p /\ c[<<item, userId>>].age <= StdTTL

cacheGet(c, item, userId) ==
  IF cacheHas(c, item, userId) THEN c[<<item, userId>>].v ELSE NoValue(item)

\* cache.set with the default TTL
cacheSet(c, item, userId, value) ==
  [c EXCEPT ![<<item, userId>>] = [p |-> TRUE, v |-> value, age |-> 0]]

\* clearCache deleting the listed keys of every user
clearCacheOfAll(c, userId) ==
  [k \in DOMAIN c |->
     IF k[1] \in {"movieId", "movieList", "movieProfileList",
                  "state", "revokedUserName", "revokeUserList"}
     THEN Absent(k[1]) ELSE c[k]]

\* clearCache: deletes the six listed keys of the user
ClearedItems == {"movieId", "movieList", "movieProfileList",
                 "state", "revokedUserName", "revokeUserList"}

clearCache(c, userId) ==
  [k \in DOMAIN c |->
     IF k[2] = userId /\ k[1] \in ClearedItems THEN Absent(k[1]) ELSE c[k]]

(* ---------------------------------------------------------------------- *)
(* Remote catalog (CouchPotato API): the values a call can resolve to      *)
(* ---------------------------------------------------------------------- *)
NoMovie == [id |-> 0, title |-> "", year |-> "", movie_id |-> "", keyboard_value |-> ""]

Raw1 == [original_title |-> "Alien", year |-> "1979", imdb |-> "tt1"]
Raw2 == [original_title |-> "Brazil", year |-> "", imdb |-> "tt2"]

\* keyboardValue = title + (year ? ' - ' + year : '')
KeyboardValue(title, year) ==
  CASE title = "Alien" /\ year = "1979" -> "Alien - 1979"
    [] title = "Brazil" /\ year = "" -> "Brazil"
    [] OTHER -> title

\* movie.search: rejected, resolved without a movies field, or with a list
SearchResults ==
  {[ok |-> FALSE, has |-> FALSE, movies |-> <<>>],
   [ok |-> TRUE, has |-> FALSE, movies |-> <<>>],
   [ok |-> TRUE, has |-> TRUE, movies |-> <<>>],
   [ok |-> TRUE, has |-> TRUE, movies |-> <<Raw1, Raw2>>]}

\* media.list as used by handleMovie: the imdb ids already in the library
MediaResults ==
  {[ok |-> FALSE, movies |-> <<>>],
   [ok |-> TRUE, movies |-> <<>>],
   [ok |-> TRUE, movies |-> <<"tt1">>]}

\* profile.list: rejected, resolved without a list field, or with profiles
Prof1 == [label |-> "HD", hash |-> "h1", hide |-> FALSE]
Prof2 == [label |-> "SD", hash |-> "h2", hide |-> TRUE]
Prof3 == [label |-> "Best", hash |-> "h3", hide |-> FALSE]

ProfileResults ==
  {[ok |-> FALSE, has |-> FALSE, list |-> <<>>],
   [ok |-> TRUE, has |-> FALSE, list |-> <<>>],
   [ok |-> TRUE, has |-> TRUE, list |-> <<Prof1, Prof2, Prof3>>]}

\* media.list as used by /library: the number of titles that match
LibraryResults ==
  {[ok |-> FALSE, n |-> 0], [ok |-> TRUE, n |-> 0], [ok |-> TRUE, n |-> 1],
   [ok |-> TRUE, n |-> 50], [ok |-> TRUE, n |-> 120]}

\* movie.searcher.full_search and movie.add: rejected, or resolved with a flag
FlagResults == {[ok |-> FALSE, success |-> FALSE], [ok |-> TRUE, success |-> FALSE],
                [ok |-> TRUE, success |-> TRUE]}

\* a pending couchpotato.get(...) promise with the values its callbacks close over
Call(op, userId, movie, q) == [op |-> op, u |-> userId, movie |-> movie, q |-> q]

Texts == {"yes", "NO", "no", "maybe", "Alien - 1979", "HD"} \cup Names

(* ---------------------------------------------------------------------- *)
(* Effects of a handler: the new globals and the messages it sent          *)
(* ---------------------------------------------------------------------- *)
\* a handler that changed nothing and sent msgs (also: a handler that threw
\* after sending msgs)
Sent(msgs) ==
  [allowed |-> allowedUsers, revoked |-> revokedUsers, writes |-> writes,
   cache |-> cache, calls |-> calls, out |-> msgs]

\* the custom keyboard of the user lists and of the profiles: two per row
RECURSIVE RowsOfTwo(_)
RowsOfTwo(labels) ==
  IF Len(labels) = 0 THEN <<>>
  ELSE IF Len(labels) = 1 THEN <<labels>>
  ELSE <<SubSeq(labels, 1, 2)>> \o RowsOfTwo(SubSeq(labels, 3, Len(labels)))

\* the candidate list cached by /revoke and /unrevoke
CandidateList(list) ==
  [k \in 1..Len(list) |->
     [id |-> k, userId |-> list[k], keyboardValue |-> getTelegramName(list[k])]]

KeyboardValues(list) == [k \in 1..Len(list) |-> list[k].keyboardValue]

\* handleMovieSearch, up to the awaited movie.search
handleMovieSearch(userId, movieName) ==
  [Sent(<<>>) EXCEPT !.calls = calls (+) SetToBag({Call("search", userId, NoMovie, "")})]

\* handleMovie, up to the awaited media.list of 'checkCouchPotatoMovie'
handleMovie(userId, movieDisplayName) ==
  LET movieList == cacheGet(cache, "movieList", userId)
      matches == SelectSeq(movieList, LAMBDA item : item.keyboard_value = movieDisplayName)
  IN IF ~cacheHas(cache, "movieList", userId)
     THEN Sent(<<replyWithError(userId, "searchAgain")>>)
     ELSE IF Len(matches) = 0
     THEN Sent(<<replyWithError(userId, "movieNotFound")>>)
     ELSE [Sent(<<>>) EXCEPT
             !.calls = calls (+) SetToBag({Call("media.list", userId, matches[1], "")})]

\* handleProfile(msg): msgIsObject is false when the argument has no chat field
handleProfile(msgIsObject, userId, profileName) ==
  LET profileList == cacheGet(cache, "movieProfileList", userId)
      movieId == cacheGet(cache, "movieId", userId)
      movieList == cacheGet(cache, "movieList", userId)
      profiles == SelectSeq(profileList, LAMBDA item : item.label = profileName)
      movies == SelectSeq(movieList, LAMBDA item : item.id = movieId)
  IN IF ~msgIsObject
     THEN Sent(<<>>)   \* TypeError: msg.chat is undefined
     ELSE IF \/ ~cacheHas(cache, "movieProfileList", userId)
             \/ ~cacheHas(cache, "movieList", userId)
             \/ ~cacheHas(cache, "movieId", userId)
     THEN Sent(<<replyWithError(userId, "tryAgain")>>)
     ELSE IF Len(profiles) = 0
     THEN Sent(<<replyWithError(userId, "profileNotFound")>>)
     ELSE IF Len(movies) = 0
     THEN Sent(<<>>)   \* TypeError: movie is undefined
     ELSE [Sent(<<>>) EXCEPT
             !.calls = calls (+) SetToBag({Call("movie.add", userId, movies[1], profiles[1].hash)})]

\* handleRevokeUser: stages the confirmation of a revoke
handleRevokeUser(userId, revokedUser) ==
  [Sent(<<sendMessage(userId, "revokeConfirm", <<revokedUser>>, <<<<"NO">>, <<"yes">>>>)>>)
     EXCEPT !.cache = cacheSet(cacheSet(cache, "state", userId, REVOKE_CONFIRM),
                               "revokedUserName", userId, revokedUser)]

\* handleRevokeUserConfirm without the splice of line 699
handleRevokeUserConfirmNoSplice(userId, revokedConfirm) ==
  LET revokedUser == cacheGet(cache, "revokedUserName", userId)
      revokedUserList == cacheGet(cache, "revokeUserList", userId)
      i == IndexOf(KeyboardValues(revokedUserList), revokedUser)
      j == IndexOf(allowedUsers, revokedUserList[i + 1].userId)
  IN IF revokedConfirm = "NO" \/ revokedConfirm = "no"
     THEN [Sent(<<sendMessage(userId, "accessNotRevoked", <<revokedUser>>, <<>>)>>)
             EXCEPT !.cache = clearCache(cache, userId)]
     ELSE IF ~cacheHas(cache, "revokeUserList", userId) \/ i = -1
     THEN Sent(<<>>)
     ELSE [allowed |-> allowedUsers,
           revoked |-> Append(revokedUsers, UserAt(allowedUsers, j)),
           writes |-> updateACL(writes, allowedUsers,
                                Append(revokedUsers, UserAt(allowedUsers, j))),
           cache |-> clearCache(cache, userId),
           calls |-> calls,
           out |-> <<sendMessage(userId, "accessRevoked", <<revokedUser>>, <<>>)>>]

\* handleRevokeUserConfirm
handleRevokeUserConfirm(userId, revokedConfirm) ==
  LET revokedUser == cacheGet(cache, "revokedUserName", userId)
      revokedUserList == cacheGet(cache, "revokeUserList", userId)
      i == IndexOf(KeyboardValues(revokedUserList), revokedUser)
      j == IndexOf(allowedUsers, revokedUserList[i + 1].userId)
  IN IF revokedConfirm = "NO" \/ revokedConfirm = "no"
     THEN [Sent(<<sendMessage(userId, "accessNotRevoked", <<revokedUser>>, <<>>)>>)
             EXCEPT !.cache = clearCache(cache, userId)]
     ELSE IF ~cacheHas(cache, "revokeUserList", userId) \/ i = -1
     THEN Sent(<<>>)   \* TypeError: the list or the list entry is undefined
     ELSE [allowed |-> Splice1(allowedUsers, j),
           revoked |-> Append(revokedUsers, UserAt(allowedUsers, j)),
           writes |-> updateACL(writes, Splice1(allowedUsers, j),
                                Append(revokedUsers, UserAt(allowedUsers, j))),
           cache |-> clearCache(cache, userId),
           calls |-> calls,
           out |-> <<sendMessage(userId, "accessRevoked", <<revokedUser>>, <<>>)>>]

\* handleUnRevokeUser: stages the confirmation of an unrevoke
handleUnRevokeUser(userId, revokedUser) ==
  [Sent(<<sendMessage(userId, "unrevokeConfirm", <<revokedUser>>, <<<<"NO">>, <<"yes">>>>)>>)
     EXCEPT !.cache = cacheSet(cacheSet(cache, "state", userId, UNREVOKE_CONFIRM),
                               "revokedUserName", userId, revokedUser)]

\* handleUnRevokeUserConfirm
handleUnRevokeUserConfirm(userId, revokedConfirm) ==
  LET revokedUser == cacheGet(cache, "revokedUserName", userId)
      unrevokedUserList == cacheGet(cache, "unrevokeUserList", userId)
      i == IndexOf(KeyboardValues(unrevokedUserList), revokedUser)
      j == IndexOf(revokedUsers, unrevokedUserList[i + 1].userId)
  IN IF revokedConfirm = "NO" \/ revokedConfirm = "no"
     THEN [Sent(<<sendMessage(userId, "accessNotUnrevoked", <<revokedUser>>, <<>>)>>)
             EXCEPT !.cache = clearCache(cache, userId)]
     ELSE IF \/ ~cacheHas(cache, "unrevokeUserList", userId)
             \/ i = -1
             \/ \E k \in 1..Len(revokedUsers) : revokedUsers[k] = Undefined
     THEN Sent(<<>>)   \* TypeError: the list, its entry or a revoked user is undefined
     ELSE [allowed |-> allowedUsers,
           revoked |-> Splice1(revokedUsers, j),
           writes |-> updateACL(writes, allowedUsers, Splice1(revokedUsers, j)),
           cache |-> clearCache(cache, userId),
           calls |-> calls,
           out |-> <<sendMessage(userId, "accessUnrevoked", <<revokedUser>>, <<>>)>>]

(* ---------------------------------------------------------------------- *)
(* Continuations of the awaited remote calls                               *)
(* ---------------------------------------------------------------------- *)
\* the movieList built from the movies of a search result
MovieList(movies) ==
  [k \in 1..Len(movies) |->
     [id |-> k, title |-> movies[k].original_title, year |-> movies[k].year,
      movie_id |-> movies[k].imdb,
      keyboard_value |-> KeyboardValue(movies[k].original_title, movies[k].year)]]

\* handleMovieSearch with the keyboard of the profiles: two labels per row
searchDoneTwoPerRow(userId, r) ==
  IF ~r.ok
  THEN Sent(<<replyWithError(userId, "upstreamError")>>)
  ELSE IF ~r.has
  THEN [Sent(<<replyWithError(userId, "couldNotFind")>>)
          EXCEPT !.cache = cacheSet(cache, "state", userId, MOVIE_SEARCH)]
  ELSE LET movieList == MovieList(r.movies)
           keyboardList == RowsOfTwo([k \in 1..Len(movieList) |-> movieList[k].keyboard_value])
       IN [Sent(<<sendMessage(userId, "foundMovies",
                               [k \in 1..Len(movieList) |-> movieList[k].title],
                               keyboardList)>>)
             EXCEPT !.cache = cacheSet(cacheSet(cache, "movieList", userId, movieList),
                                       "state", userId, MOVIE)]

\* handleMovieSearch, the callbacks of movie.search
searchDone(userId, r) ==
  IF ~r.ok
  THEN Sent(<<replyWithError(userId, "upstreamError")>>)
  ELSE IF ~r.has
  THEN [Sent(<<replyWithError(userId, "couldNotFind")>>)
          EXCEPT !.cache = cacheSet(cache, "state", userId, MOVIE_SEARCH)]
  ELSE LET movieList == MovieList(r.movies)
           keyboardList == [k \in 1..Len(movieList) |-> <<movieList[k].keyboard_value>>]
       IN [Sent(<<sendMessage(userId, "foundMovies",
                               [k \in 1..Len(movieList) |-> movieList[k].title],
                               keyboardList)>>)
             EXCEPT !.cache = cacheSet(cacheSet(cache, "movieList", userId, movieList),
                                       "state", userId, MOVIE)]

\* handleMovie, the callbacks of media.list: 'checkCouchPotatoMovie', and on
\* no existing movie the synchronous start of 'getCouchPotatoProfile'
mediaListDone(userId, movie, r) ==
  IF ~r.ok
  THEN Sent(<<replyWithError(userId, "upstreamError")>>)
  ELSE IF \E k \in 1..Len(r.movies) : r.movies[k] = movie.movie_id
  THEN [Sent(<<replyWithError(userId, "movieExists")>>)
          EXCEPT !.cache = cacheSet(cache, "state", userId, MOVIE_SEARCH)]
  ELSE [Sent(<<>>) EXCEPT
          !.cache = cacheSet(cache, "movieId", userId, movie.id),
          !.calls = calls (+) SetToBag({Call("profile.list", userId, movie, "")})]

\* the profile keyboard: two labels per row; a last single label gets a row
\* only when it is the only label
ProfileKeyboard(labels) ==
  IF Len(labels) = 1 THEN <<labels>>
  ELSE IF Len(labels) % 2 = 1 THEN RowsOfTwo(SubSeq(labels, 1, Len(labels) - 1))
  ELSE RowsOfTwo(labels)

\* the callbacks of profile.list without the filter on hidden profiles
profileListDoneAll(userId, r) ==
  IF ~r.ok
  THEN Sent(<<replyWithError(userId, "upstreamError")>>)
  ELSE IF ~r.has
  THEN Sent(<<replyWithError(userId, "noProfiles")>>)
  ELSE IF ~cacheHas(cache, "movieList", userId)
  THEN Sent(<<replyWithError(userId, "searchAgain")>>)
  ELSE LET enabledProfiles == r.list
           profileList == [k \in 1..Len(enabledProfiles) |->
                             [id |-> k - 1, label |-> enabledProfiles[k].label,
                              hash |-> enabledProfiles[k].hash]]
           labels == [k \in 1..Len(enabledProfiles) |-> enabledProfiles[k].label]
       IN [Sent(<<sendMessage(userId, "foundProfiles", labels, ProfileKeyboard(labels))>>)
             EXCEPT !.cache = cacheSet(cacheSet(cache, "movieProfileList", userId, profileList),
                                       "state", userId, PROFILE)]

\* handleMovie, the callbacks of profile.list
profileListDone(userId, r) ==
  IF ~r.ok
  THEN Sent(<<replyWithError(userId, "upstreamError")>>)
  ELSE IF ~r.has
  THEN Sent(<<replyWithError(userId, "noProfiles")>>)
  ELSE IF ~cacheHas(cache, "movieList", userId)
  THEN Sent(<<replyWithError(userId, "searchAgain")>>)
  ELSE LET enabledProfiles == SelectSeq(r.list, LAMBDA item : ~item.hide)
           profileList == [k \in 1..Len(enabledProfiles) |->
                             [id |-> k - 1, label |-> enabledProfiles[k].label,
                              hash |-> enabledProfiles[k].hash]]
           labels == [k \in 1..Len(enabledProfiles) |-> enabledProfiles[k].label]
       IN [Sent(<<sendMessage(userId, "foundProfiles", labels, ProfileKeyboard(labels))>>)
             EXCEPT !.cache = cacheSet(cacheSet(cache, "movieProfileList", userId, profileList),
                                       "state", userId, PROFILE)]

\* handleProfile, the callbacks of movie.add
movieAddDone(userId, r) ==
  [Sent(IF r.ok /\ r.success
        THEN <<sendMessage(userId, "movieAdded", <<>>, <<>>)>>
        ELSE <<replyWithError(userId, IF r.ok THEN "movieAddFail" ELSE "upstreamError")>>)
     EXCEPT !.cache = clearCache(cache, userId)]

\* _.chunk(response, 50)
ChunkSize == 50

RECURSIVE Chunk(_)
Chunk(response) ==
  IF Len(response) = 0 THEN <<>>
  ELSE IF Len(response) <= ChunkSize THEN <<response>>
  ELSE <<SubSeq(response, 1, ChunkSize)>>
       \o Chunk(SubSeq(response, ChunkSize + 1, Len(response)))

\* the lines of the /library reply, each stood for by its rank in the order
\* of Array.prototype.sort: the header line '*Found:*' sorts before every
\* title line '[title](url)'; media.list returns the n matching titles in
\* the order of the catalog, here the descending one
Header == 0
LibraryTitles(n) == [k \in 1..n |-> n + 1 - k]

\* /library, the callbacks of media.list; r.n is the number of titles that
\* match the query
libraryDone(userId, libraryQuery, r) ==
  LET sorted == SortSeq(LibraryTitles(r.n), LAMBDA a, b : a < b)
      response == IF libraryQuery # "" THEN <<Header>> \o sorted ELSE sorted
      splitReponse == SortSeq(Chunk(response), LAMBDA a, b : a[1] < b[1])
      page(lines) == [sendMessage(userId, "library", SortSeq(lines, LAMBDA a, b : a < b), <<>>)
                        EXCEPT !.n = Len(lines)]
  IN [Sent(IF ~r.ok THEN <<replyWithError(userId, "upstreamError")>>
           ELSE IF r.n = 0 THEN <<replyWithError(userId, "queryNoResults")>>
           ELSE IF Len(response) > ChunkSize
           THEN [k \in 1..Len(splitReponse) |-> page(splitReponse[k])]
           ELSE <<page(response)>>)
        EXCEPT !.cache = clearCache(cache, userId)]

\* /wanted, the callbacks of movie.searcher.full_search
wantedDone(userId, r) ==
  Sent(IF r.ok THEN <<sendMessage(userId, "moviesWanted", <<>>, <<>>)>>
       ELSE <<replyWithError(userId, "upstreamError")>>)

(* ---------------------------------------------------------------------- *)
(* Command and message handlers                                            *)
(* ---------------------------------------------------------------------- *)
\* msgs were sent before the handler with effect eff ran
Pre(msgs, eff) == [eff EXCEPT !.out = msgs \o @]

\* /auth prompting for the owner on every successful authorization
authAlwaysPrompt(userId, password) ==
  IF isAuthorized(userId)
  THEN Sent(<<sendMessage(userId, "alreadyAuthorized", <<>>, <<>>)>>)
  ELSE IF isRevoked(userId)
  THEN Sent(<<sendMessage(userId, "isRevoked", <<>>, <<>>)>>)
  ELSE IF password # Password
  THEN Sent(<<replyWithError(userId, "invalidPassword")>>)
  ELSE LET granted == Append(allowedUsers, userId)
       IN [allowed |-> granted,
           revoked |-> revokedUsers,
           writes |-> updateACL(writes, granted, revokedUsers),
           cache |-> cache,
           calls |-> calls,
           out |-> promptOwnerConfig(userId)
                   \o <<sendMessage(userId, "isAuthorized", <<>>, <<>>)>>
                   \o (IF owner # NoOwner
                       THEN <<sendMessage(owner, "userAuthorized",
                                          <<getTelegramName(userId)>>, <<>>)>>
                       ELSE <<>>)]

\* bot.onText(/\/auth\s(.+)/)
auth(userId, password) ==
  IF isAuthorized(userId)
  THEN Sent(<<sendMessage(userId, "alreadyAuthorized", <<>>, <<>>)>>)
  ELSE IF isRevoked(userId)
  THEN Sent(<<sendMessage(userId, "isRevoked", <<>>, <<>>)>>)
  ELSE IF password # Password
  THEN Sent(<<replyWithError(userId, "invalidPassword")>>)
  ELSE LET granted == Append(allowedUsers, userId)
       IN [allowed |-> granted,
           revoked |-> revokedUsers,
           writes |-> updateACL(writes, granted, revokedUsers),
           cache |-> cache,
           calls |-> calls,
           out |-> (IF Len(granted) = 1 THEN promptOwnerConfig(userId) ELSE <<>>)
                   \o <<sendMessage(userId, "isAuthorized", <<>>, <<>>)>>
                   \o (IF owner # NoOwner
                       THEN <<sendMessage(owner, "userAuthorized",
                                          <<getTelegramName(userId)>>, <<>>)>>
                       ELSE <<>>)]

\* bot.onText(/\/[Qq](uery)?\s?(.+)?/); movieName = "" when there is no argument
query(userId, movieName) ==
  Pre(verifyUser(userId),
      IF movieName # ""
      THEN handleMovieSearch(userId, movieName)
      ELSE [Sent(<<sendMessage(userId, "moviesLookup", <<>>, <<>>)>>)
              EXCEPT !.cache = cacheSet(cache, "state", userId, MOVIE_SEARCH)])

\* bot.onText(/\/clear/)
clear(userId) ==
  Pre(verifyUser(userId),
      [Sent(<<sendMessage(userId, "clear", <<>>, <<>>)>>)
         EXCEPT !.cache = clearCache(cache, userId)])

\* bot.onText(/\/wanted/)
wanted(userId) ==
  Pre(verifyAdmin(userId),
      [Sent(<<>>) EXCEPT
         !.calls = calls (+) SetToBag({Call("full_search", userId, NoMovie, "")})])

\* bot.onText(/\/users/)
users(userId) ==
  Pre(verifyAdmin(userId),
      Sent(<<sendMessage(userId, "allowedUsers",
                         [k \in 1..Len(allowedUsers) |-> getTelegramName(allowedUsers[k])],
                         <<>>)>>))

\* the identifier n used by the loops of /revoke and /unrevoke is declared nowhere
NIsDeclared == FALSE

\* /revoke without the early return of lines 356-358
revokeNoEmptyCheck(userId) ==
  Pre(verifyAdmin(userId),
      IF Len(allowedUsers) > 0 /\ ~NIsDeclared
      THEN Sent(<<>>)
      ELSE LET revokeList == CandidateList(allowedUsers)
           IN [Sent(<<sendMessage(userId, "allowedUsers", KeyboardValues(revokeList),
                                  RowsOfTwo(KeyboardValues(revokeList)))>>)
                 EXCEPT !.cache = cacheSet(cacheSet(cache, "state", userId, REVOKE),
                                           "revokeUserList", userId, revokeList)])

\* bot.onText(/\/revoke/)
revoke(userId) ==
  Pre(verifyAdmin(userId),
      IF Len(allowedUsers) = 0
      THEN Sent(<<sendMessage(userId, "noAllowedUsers", <<>>, <<>>)>>)
      ELSE IF ~NIsDeclared
      THEN Sent(<<>>)   \* ReferenceError: n is not defined ('userId': n.id)
      ELSE LET revokeList == CandidateList(allowedUsers)
           IN [Sent(<<sendMessage(userId, "allowedUsers", KeyboardValues(revokeList),
                                  RowsOfTwo(KeyboardValues(revokeList)))>>)
                 EXCEPT !.cache = cacheSet(cacheSet(cache, "state", userId, REVOKE),
                                           "revokeUserList", userId, revokeList)])

\* bot.onText(/\/unrevoke/)
unrevoke(userId) ==
  Pre(verifyAdmin(userId),
      IF Len(revokedUsers) = 0
      THEN Sent(<<sendMessage(userId, "noRevokedUsers", <<>>, <<>>)>>)
      ELSE IF ~NIsDeclared \/ \E k \in 1..Len(revokedUsers) : revokedUsers[k] = Undefined
      THEN Sent(<<>>)   \* ReferenceError: n is not defined (getTelegramName(n))
      ELSE LET revokeList == CandidateList(revokedUsers)
           IN [Sent(<<sendMessage(userId, "revokedUsers", KeyboardValues(revokeList),
                                  RowsOfTwo(KeyboardValues(revokeList)))>>)
                 EXCEPT !.cache = cacheSet(cacheSet(cache, "state", userId, UNREVOKE),
                                           "unrevokeUserList", userId, revokeList)])

\* bot.onText(/\/library\s?(.+)?/), up to the awaited media.list
library(userId, libraryQuery) ==
  [Sent(<<>>) EXCEPT
     !.calls = calls (+) SetToBag({Call("library", userId, NoMovie, libraryQuery)})]

\* bot.on('message') for a text that is not a command
onMessage(userId, message) ==
  LET currentState == cacheGet(cache, "state", userId)
  IN Pre(verifyUser(userId),
         IF ~cacheHas(cache, "state", userId)
         THEN Sent(<<replyWithError(userId, "noState")>>)
         ELSE CASE currentState = MOVIE_SEARCH ->
                     Pre(verifyUser(userId), handleMovieSearch(userId, message))
                [] currentState = MOVIE -> handleMovie(userId, message)
                [] currentState = PROFILE ->
                     \* called as handleProfile(chatId, userId, message)
                     handleProfile(FALSE, userId, message)
                [] currentState = REVOKE_CONFIRM ->
                     Pre(verifyAdmin(userId), handleRevokeUserConfirm(userId, message))
                [] currentState = UNREVOKE ->
                     Pre(verifyAdmin(userId), handleUnRevokeUser(userId, message))
                [] currentState = UNREVOKE_CONFIRM ->
                     Pre(verifyAdmin(userId), handleUnRevokeUserConfirm(userId, message))
                [] OTHER -> Sent(<<replyWithError(userId, "unknownState")>>))

\* bot.on('message') for a command: only the verifyUser of line 217 acts
onCommandMessage(userId) == verifyUser(userId)

(* ---------------------------------------------------------------------- *)
(* Actions                                                                 *)
(* ---------------------------------------------------------------------- *)
IsPrompt(m) == m.text = "ownerConfig"
HasPrompt(msgs) == \E k \in 1..Len(msgs) : IsPrompt(msgs[k])

\* the record of an event: res is the value a settled remote call resolved to
NoResult == [ok |-> FALSE, none |-> TRUE]
Event(kind, userId, text) == [kind |-> kind, user |-> userId, text |-> text, res |-> NoResult]

\* the number of pending remote calls of a user
CallsOf(b, userId) ==
  BagCardinality([c \in {d \in BagToSet(b) : d.u = userId} |-> CopiesIn(c, b)])

\* one event handled: the globals take the values the handler left
HandleEv(e, eff) ==
  /\ Cardinality(eff.writes) <= MaxWrites
  /\ \A u \in Users : CallsOf(eff.calls, u) <= MaxCalls
  /\ allowedUsers' = eff.allowed
  /\ revokedUsers' = eff.revoked
  /\ writes' = eff.writes
  /\ cache' = eff.cache
  /\ calls' = eff.calls
  /\ out' = eff.out
  /\ ev' = e
  /\ prompted' = (prompted \/ HasPrompt(eff.out))
  /\ UNCHANGED <<names, owner, aclFile>>

Handle(kind, userId, text, eff) == HandleEv(Event(kind, userId, text), eff)

Auth == \E u \in Users, pw \in Passwords :
  Handle("auth", u, pw, Pre(onCommandMessage(u), auth(u, pw)))

Query == \E u \in Chatters, movieName \in {"", "Alien"} :
  Handle("q", u, movieName, Pre(onCommandMessage(u), query(u, movieName)))

Clear == \E u \in Chatters :
  Handle("clear", u, "", Pre(onCommandMessage(u), clear(u)))

Wanted == \E u \in Chatters :
  Handle("wanted", u, "", Pre(onCommandMessage(u), wanted(u)))

UsersCmd == \E u \in Chatters :
  Handle("users", u, "", Pre(onCommandMessage(u), users(u)))

Revoke == \E u \in Chatters :
  Handle("revoke", u, "", Pre(onCommandMessage(u), revoke(u)))

Unrevoke == \E u \in Chatters :
  Handle("unrevoke", u, "", Pre(onCommandMessage(u), unrevoke(u)))

Library == \E u \in Chatters, q \in {"", "Alien"} :
  Handle("library", u, q, Pre(onCommandMessage(u), library(u, q)))

FreeText == \E u \in Chatters, t \in Texts :
  Handle("text", u, t, onMessage(u, t))

\* a pending remote call settles and its callbacks run
Results(op) ==
  CASE op = "search" -> SearchResults
    [] op = "media.list" -> MediaResults
    [] op = "profile.list" -> ProfileResults
    [] op = "library" -> LibraryResults
    [] OTHER -> FlagResults

Settled(c, r) ==
  CASE c.op = "search" -> searchDone(c.u, r)
    [] c.op = "media.list" -> mediaListDone(c.u, c.movie, r)
    [] c.op = "profile.list" -> profileListDone(c.u, r)
    [] c.op = "library" -> libraryDone(c.u, c.q, r)
    [] c.op = "movie.add" -> movieAddDone(c.u, r)
    [] OTHER -> wantedDone(c.u, r)

Complete == \E c \in BagToSet(calls) : \E r \in Results(c.op) :
  LET eff == Settled(c, r)
  IN HandleEv([Event("done", c.u, c.op) EXCEPT !.res = r],
              [eff EXCEPT !.calls = @ (-) SetToBag({c})])

\* an fs.writeFile started by updateACL completes
WriteDone == \E w \in writes :
  /\ aclFile' = w
  /\ writes' = writes \ {w}
  /\ ev' = Event("written", 0, "")
  /\ out' = <<>>
  /\ UNCHANGED <<names, owner, allowedUsers, revokedUsers, cache, calls, prompted>>

\* TickStep time units pass
Older(age) == IF age + TickStep > StdTTL THEN StdTTL + 1 ELSE age + TickStep

Tick ==
  /\ \E k \in DOMAIN cache : cache[k].p /\ cache[k].age <= StdTTL
  /\ cache' = [k \in DOMAIN cache |->
                 IF cache[k].p THEN [cache[k] EXCEPT !.age = Older(@)] ELSE cache[k]]
  /\ ev' = Event("tick", 0, "")
  /\ out' = <<>>
  /\ UNCHANGED <<names, owner, allowedUsers, revokedUsers, aclFile, writes, calls, prompted>>

\* the periodic check of node-cache deletes the expired entries
Sweep ==
  /\ \E k \in DOMAIN cache : cache[k].p /\ cache[k].age > StdTTL
  /\ cache' = [k \in DOMAIN cache |->
                 IF cache[k].p /\ cache[k].age > StdTTL THEN Absent(k[1]) ELSE cache[k]]
  /\ ev' = Event("sweep", 0, "")
  /\ out' = <<>>
  /\ UNCHANGED <<names, owner, allowedUsers, revokedUsers, aclFile, writes, calls, prompted>>

\* the events of a deployment in which no session entry gets old enough to expire
Next ==
  \/ Auth \/ Query \/ Clear \/ Wanted \/ UsersCmd \/ Revoke \/ Unrevoke
  \/ Library \/ FreeText \/ Complete \/ WriteDone

(* ---------------------------------------------------------------------- *)
(* Initial states                                                          *)
(* ---------------------------------------------------------------------- *)
EmptyCache == [k \in CacheItems \X Users |-> Absent(k[1])]

\* display names as the transport reports them: user 1 differs from the
\* others, or all users carry the same display name
DistinctNames == [u \in Users |-> IF u = 1 THEN "ann" ELSE "bob"]
SharedNames == [u \in Users |-> "ann"]
NameAssignments == {DistinctNames, SharedNames}

AclLists == {s \in SeqsUpTo(Users, NUsers) : NoDup(s)}

\* a fresh deployment: nobody allowed or revoked, no session, owner per config
Init ==
  /\ names = DistinctNames
  /\ owner \in {NoOwner} \cup Users
  /\ allowedUsers = <<>>
  /\ revokedUsers = <<>>
  /\ aclFile = Stringify(<<>>, <<>>)
  /\ writes = {}
  /\ cache = EmptyCache
  /\ calls = EmptyBag
  /\ ev = Event("init", 0, "")
  /\ out = <<>>
  /\ prompted = FALSE

Spec == Init /\ [][Next]_vars

\* the same deployment when nobody starts a movie search: authorizations and
\* admin commands only
NextAcl ==
  \/ Auth \/ Clear \/ Wanted \/ UsersCmd \/ Revoke \/ Unrevoke
  \/ FreeText \/ Complete \/ WriteDone

SpecAcl == Init /\ [][NextAcl]_vars

\* The movie conversation of an authorized user with time passing: session
\* entries age and expire.
InitSession ==
  /\ names = DistinctNames
  /\ owner \in {NoOwner} \cup Chatters
  /\ allowedUsers \in {s \in AclLists : Range(s) = Chatters}
  /\ revokedUsers = <<>>
  /\ aclFile = Stringify(allowedUsers, revokedUsers)
  /\ writes = {}
  /\ cache = EmptyCache
  /\ calls = EmptyBag
  /\ ev = Event("init", 0, "")
  /\ out = <<>>
  /\ prompted = FALSE

NextTTL == Query \/ Clear \/ FreeText \/ Complete \/ Tick \/ Sweep

SpecTTL == InitSession /\ [][NextTTL]_vars

\* The admin conversation, entered at the session entries that /revoke
\* (state REVOKE, revokeUserList of the allowed users), /revoke with
\* handleRevokeUser (state REVOKE_CONFIRM, revokedUserName, revokeUserList)
\* and /unrevoke (state UNREVOKE, unrevokeUserList of the revoked users)
\* write, over any ACL whose two lists are duplicate-free and disjoint.
InitAdmin ==
  /\ names \in NameAssignments
  /\ owner \in {NoOwner} \cup Chatters
  /\ allowedUsers \in AclLists
  /\ revokedUsers \in {r \in AclLists : Range(r) \cap Range(allowedUsers) = {}}
  /\ aclFile = Stringify(allowedUsers, revokedUsers)
  /\ writes = {}
  /\ calls = EmptyBag
  /\ \E a \in Chatters :
        \/ /\ allowedUsers # <<>>
           /\ \E name \in Names \cup {"maybe"} :
                cache = cacheSet(cacheSet(cacheSet(EmptyCache,
                                   "revokeUserList", a, CandidateList(allowedUsers)),
                                   "state", a, REVOKE_CONFIRM),
                                   "revokedUserName", a, name)
        \/ /\ allowedUsers # <<>>
           /\ cache = cacheSet(cacheSet(EmptyCache,
                                   "revokeUserList", a, CandidateList(allowedUsers)),
                                   "state", a, REVOKE)
        \/ /\ revokedUsers # <<>>
           /\ cache = cacheSet(cacheSet(EmptyCache,
                                   "unrevokeUserList", a, CandidateList(revokedUsers)),
                                   "state", a, UNREVOKE)
  /\ ev = Event("init", 0, "")
  /\ out = <<>>
  /\ prompted = FALSE

NextAdmin == Auth \/ Clear \/ UsersCmd \/ Revoke \/ Unrevoke \/ FreeText \/ WriteDone

SpecAdmin == InitAdmin /\ [][NextAdmin]_vars

\* Two authorized users in conversation with the bot at the same time, each
\* with remote calls of its own in flight.
Pair == {1, 2}
PairTexts == {"Alien - 1979", "maybe"}

QueryPair == \E u \in Pair, movieName \in {"", "Alien"} :
  Handle("q", u, movieName, Pre(onCommandMessage(u), query(u, movieName)))

ClearPair == \E u \in Pair :
  Handle("clear", u, "", Pre(onCommandMessage(u), clear(u)))

FreeTextPair == \E u \in Pair, t \in PairTexts :
  Handle("text", u, t, onMessage(u, t))

InitPair ==
  /\ names = DistinctNames
  /\ owner = NoOwner
  /\ allowedUsers = <<1, 2>>
  /\ revokedUsers = <<>>
  /\ aclFile = Stringify(allowedUsers, revokedUsers)
  /\ writes = {}
  /\ cache = EmptyCache
  /\ calls = EmptyBag
  /\ ev = Event("init", 0, "")
  /\ out = <<>>
  /\ prompted = FALSE

NextPair == QueryPair \/ ClearPair \/ FreeTextPair \/ Complete

SpecPair == InitPair /\ [][NextPair]_vars

(* ---------------------------------------------------------------------- *)
(* Properties                                                              *)
(* ---------------------------------------------------------------------- *)
HasMsg(msgs, text) == \E k \in 1..Len(msgs) : msgs[k].text = text
Allowed == Range(allowedUsers)
Revoked == Range(revokedUsers)

\* C1: in every reachable state no user identifier is in both the Allowed
\* set and the Revoked set.
C1_Disjoint == Allowed \cap Revoked = {}

\* a revoke has just been committed and the revoked list is not empty
C1_Witness == ev.kind = "text" /\ HasMsg(out, "accessRevoked") /\ Revoked \cap Users # {}

C3_UnauthorizedNoEffect ==
  [][(ev'.kind \in {"q", "library", "text", "clear"} /\ ev'.user \notin Allowed) =>
       /\ cache' = cache
       /\ calls' = calls
       /\ \A k \in 1..Len(out') : out'[k].err /\ out'[k].text = "notAuthorized"
    ]_vars

\* C4: an admin command of a user who is not the configured owner fails with
\* AdminOnly and has no other effect: no session entry is written, the ACL is
\* unchanged, no user list is sent and no catalog call is started.
C4_AdminOnlyNoEffect ==
  [][(ev'.kind \in {"wanted", "users", "revoke", "unrevoke"} /\ owner # ev'.user) =>
       /\ HasMsg(out', "adminOnly")
       /\ cache' = cache
       /\ allowedUsers' = allowedUsers /\ revokedUsers' = revokedUsers
       /\ ~HasMsg(out', "allowedUsers") /\ ~HasMsg(out', "revokedUsers")
       /\ calls' = calls
    ]_vars

C7_AuthOutcomes ==
  [][ev'.kind = "auth" =>
       LET u == ev'.user
           same == allowedUsers' = allowedUsers /\ revokedUsers' = revokedUsers
       IN IF u \in Allowed
          THEN same /\ HasMsg(out', "alreadyAuthorized") /\ ~HasMsg(out', "isAuthorized")
          ELSE IF u \in Revoked
          THEN same /\ HasMsg(out', "isRevoked") /\ ~HasMsg(out', "isAuthorized")
          ELSE IF ev'.text # Password
          THEN same /\ HasMsg(out', "invalidPassword") /\ ~HasMsg(out', "isAuthorized")
          ELSE /\ allowedUsers' = Append(allowedUsers, u)
               /\ revokedUsers' = revokedUsers
               /\ HasMsg(out', "isAuthorized")
    ]_vars

\* a revoked user has just sent /auth with the right password and was refused
C7_Witness ==
  /\ ev.kind = "auth" /\ ev.text = Password
  /\ ev.user \in Revoked /\ ev.user \notin Allowed
  /\ HasMsg(out, "isRevoked")

\* C8: when the success reply of /auth is sent, the persisted ACL file equals
\* the serialization of the in-memory Allowed and Revoked lists.
C8_PersistedBeforeReply ==
  (ev.kind = "auth" /\ HasMsg(out, "isAuthorized")) =>
     aclFile = Stringify(allowedUsers, revokedUsers)

\* C9 as stated: the claim-ownership prompt is sent at most once, and only by
\* the first successful /auth.
C9_PromptOnce ==
  [][HasPrompt(out') =>
       (~prompted /\ ev'.kind = "auth" /\ Len(allowedUsers) = 0
        /\ allowedUsers' = <<ev'.user>>)
    ]_vars

\* C9 amended: /auth sends the claim-ownership prompt exactly when it succeeds
\* with the owner unset and Allowed empty before it; every other prompt is
\* sent, with the owner unset, by an admin command or admin-flow reply of a
\* user who is in Allowed.
C9_PromptRule ==
  [][/\ ev'.kind = "auth" =>
          (HasPrompt(out') <=>
             (owner = NoOwner /\ Len(allowedUsers) = 0 /\ allowedUsers' = <<ev'.user>>))
     /\ (HasPrompt(out') /\ ev'.kind # "auth") =>
          /\ owner = NoOwner
          /\ ev'.kind \in {"wanted", "users", "revoke", "unrevoke", "text"}
          /\ ev'.user \in Allowed
    ]_vars

\* a second user has just been authorized, with the owner unset, and got no prompt
C9_Witness ==
  /\ ev.kind = "auth" /\ HasMsg(out, "isAuthorized")
  /\ owner = NoOwner /\ Len(allowedUsers) = 2 /\ ~HasPrompt(out) /\ prompted

\* C10: a session entry is unobservable after its TTL: once more than StdTTL
\* time units passed since the last write of a key, a read of the key returns
\* absent; free text then finds no state, and the profile continuation finds
\* no movie list.
C10_ExpiredUnobservable ==
  [][/\ \A k \in DOMAIN cache :
          (cache[k].p /\ cache[k].age > StdTTL) =>
             ~cacheHas(cache, k[1], k[2]) /\ cacheGet(cache, k[1], k[2]) = NoValue(k[1])
     /\ (/\ ev'.kind = "text"
         /\ cache[<<"state", ev'.user>>].p
         /\ cache[<<"state", ev'.user>>].age > StdTTL) =>
          HasMsg(out', "noState") /\ cache' = cache /\ calls' = calls
     /\ (/\ ev'.kind = "done" /\ ev'.text = "profile.list"
         /\ cache[<<"movieList", ev'.user>>].p
         /\ cache[<<"movieList", ev'.user>>].age > StdTTL) =>
          ~HasMsg(out', "foundProfiles") /\ cache' = cache
    ]_vars

\* free text has just been answered with "no state" although the state entry,
\* written more than StdTTL ago, is still held by the cache
C10_Witness ==
  /\ ev.kind = "text" /\ HasMsg(out, "noState")
  /\ cache[<<"state", ev.user>>].p
  /\ cache[<<"state", ev.user>>].age > StdTTL

\* the messages of a sequence that carry the error marker
HasError(msgs) == \E k \in 1..Len(msgs) : msgs[k].err

\* a movie.search of user ev'.user has just resolved
SearchResolved == ev'.kind = "done" /\ ev'.text = "search" /\ ev'.res.ok

\* C11: a movie search whose catalog result is empty (no movies field, or an
\* empty list of movies) leaves the state of the user at SearchPending,
\* caches no movie list and produces an error reply.
C11_EmptySearchStays ==
  [][(SearchResolved /\ Len(ev'.res.movies) = 0) =>
       /\ cacheHas(cache', "state", ev'.user)
       /\ cacheGet(cache', "state", ev'.user) = MOVIE_SEARCH
       /\ cache'[<<"movieList", ev'.user>>] = cache[<<"movieList", ev'.user>>]
       /\ HasError(out')
    ]_vars

\* C12: when a search returns n >= 1 movies, the cached movie list holds
\* exactly those n entries in catalog order, the state becomes
\* MovieSelectionPending, and the reply keyboard has n rows of one button
\* each, the i-th label being the selection label cached for the i-th entry.
C12_SearchResultCached ==
  [][(SearchResolved /\ ev'.res.has /\ Len(ev'.res.movies) >= 1) =>
       LET movies == ev'.res.movies
           movieList == cacheGet(cache', "movieList", ev'.user)
       IN /\ cacheHas(cache', "movieList", ev'.user)
          /\ Len(movieList) = Len(movies)
          /\ \A i \in 1..Len(movies) :
                /\ movieList[i].id = i
                /\ movieList[i].title = movies[i].original_title
                /\ movieList[i].year = movies[i].year
                /\ movieList[i].movie_id = movies[i].imdb
          /\ cacheHas(cache', "state", ev'.user)
          /\ cacheGet(cache', "state", ev'.user) = MOVIE
          /\ \E k \in 1..Len(out') :
                /\ out'[k].text = "foundMovies" /\ out'[k].to = ev'.user
                /\ Len(out'[k].kb) = Len(movies)
                /\ \A i \in 1..Len(movies) :
                      out'[k].kb[i] = <<movieList[i].keyboard_value>>
    ]_vars

\* a search has just resolved with two movies and the user is asked to pick one
C12_Witness ==
  /\ ev.kind = "done" /\ ev.text = "search" /\ ev.res.ok /\ Len(ev.res.movies) = 2
  /\ HasMsg(out, "foundMovies")
  /\ cacheGet(cache, "state", ev.user) = MOVIE

\* C13: free text of a user in ProfileSelectionPending that matches no label
\* of the cached profile list is answered with SelectionNotFound; no catalog
\* add is requested, and the state and the scratch are unchanged.
C13_UnknownProfile ==
  [][(/\ ev'.kind = "text"
      /\ cacheHas(cache, "state", ev'.user)
      /\ cacheGet(cache, "state", ev'.user) = PROFILE
      /\ cacheHas(cache, "movieProfileList", ev'.user)
      /\ LET profileList == cacheGet(cache, "movieProfileList", ev'.user)
         IN \A k \in 1..Len(profileList) : profileList[k].label # ev'.text) =>
       /\ HasMsg(out', "profileNotFound")
       /\ calls' = calls
       /\ cache' = cache
    ]_vars

\* the /library pages among the messages of a step, and the titles of a page
LibraryPages(msgs) == SelectSeq(msgs, LAMBDA m : m.text = "library")
TitlesOf(m) == SelectSeq(m.body, LAMBDA line : line # Header)
IsSorted(lines) == \A i, j \in 1..Len(lines) : i < j => lines[i] <= lines[j]

\* C14: a /library request with n >= 1 matching titles, with or without a
\* query argument, is answered with ceil(n/50) messages of at most 50 titles
\* each, each message sorted: one message for n <= 50, three for n = 120.
C14_LibraryPages ==
  [][(ev'.kind = "done" /\ ev'.text = "library" /\ ev'.res.ok /\ ev'.res.n >= 1) =>
       LET pages == LibraryPages(out')
       IN /\ Len(pages) = (ev'.res.n + ChunkSize - 1) \div ChunkSize
          /\ \A k \in 1..Len(pages) :
                Len(TitlesOf(pages[k])) <= ChunkSize /\ IsSorted(pages[k].body)
    ]_vars

\* C15: /revoke of the admin while Allowed is empty is answered with the
\* "no allowed users" message; no keyboard is sent and no session state or
\* candidate list is written.
C15_RevokeNobody ==
  [][(ev'.kind = "revoke" /\ owner = ev'.user /\ Len(allowedUsers) = 0) =>
       /\ HasMsg(out', "noAllowedUsers")
       /\ \A k \in 1..Len(out') : out'[k].kb = <<>>
       /\ cache' = cache
    ]_vars

\* the configured owner has just sent /revoke with nobody allowed
C15_Witness ==
  /\ ev.kind = "revoke" /\ owner = ev.user /\ Len(allowedUsers) = 0
  /\ HasMsg(out, "noAllowedUsers")

\* the candidate a name resolves to in a cached candidate list
NamedIn(list, name) == \E k \in 1..Len(list) : list[k].keyboardValue = name
TargetOf(list, name) == list[IndexOf(KeyboardValues(list), name) + 1].userId

\* C16: the revoke flow can be completed: /revoke of the admin with Allowed
\* nonempty caches the candidate list and enters the revoke-target state;
\* the name of a candidate then leads to RevokeConfirmPending, and "yes"
\* then puts that candidate in Revoked and takes it out of Allowed.
C16_RevokeFlow ==
  [][LET u == ev'.user
         list == cacheGet(cache, "revokeUserList", u)
     IN /\ (ev'.kind = "revoke" /\ owner = u /\ Len(allowedUsers) > 0) =>
             /\ cacheHas(cache', "revokeUserList", u)
             /\ cacheGet(cache', "revokeUserList", u) = CandidateList(allowedUsers)
             /\ cacheGet(cache', "state", u) = REVOKE
        /\ (/\ ev'.kind = "text" /\ owner = u
            /\ cacheGet(cache, "state", u) = REVOKE
            /\ NamedIn(list, ev'.text)) =>
             /\ cacheGet(cache', "state", u) = REVOKE_CONFIRM
             /\ cacheGet(cache', "revokedUserName", u) = ev'.text
        /\ (/\ ev'.kind = "text" /\ owner = u /\ ev'.text = "yes"
            /\ cacheGet(cache, "state", u) = REVOKE_CONFIRM
            /\ NamedIn(list, cacheGet(cache, "revokedUserName", u))
            /\ TargetOf(list, cacheGet(cache, "revokedUserName", u)) \in Allowed) =>
             LET target == TargetOf(list, cacheGet(cache, "revokedUserName", u))
             IN target \in Revoked' /\ target \notin Allowed'
    ]_vars

\* the session entries of a user
SessionOf(c, userId) == [item \in CacheItems |-> c[<<item, userId>>]]

\* C17: an event of a user is handled to completion, its awaited remote
\* call included, before a later event of that user takes effect: when a
\* call settles right after a /clear or a bare /q of the same user (events
\* that start no call, so the call was started before them), its callbacks
\* write nothing to the session of the user.
C17_HandledToCompletion ==
  [][(/\ ev'.kind = "done" /\ ev.user = ev'.user
      /\ (ev.kind = "clear" \/ (ev.kind = "q" /\ ev.text = ""))) =>
       SessionOf(cache', ev'.user) = SessionOf(cache, ev'.user)
    ]_vars

\* the scratch entries a session state depends on
Needs(st) ==
  CASE st = MOVIE -> {"movieList"}
    [] st = PROFILE -> {"movieList", "movieId", "movieProfileList"}
    [] st = REVOKE_CONFIRM -> {"revokedUserName", "revokeUserList"}
    [] st = UNREVOKE_CONFIRM -> {"revokedUserName", "unrevokeUserList"}
    [] OTHER -> {}

\* C19: the session state and the scratch of a user are invalidated
\* together: whenever the state entry of a user is present, the scratch
\* entries that state depends on are present too.
C19_InvalidatedTogether ==
  \A u \in Users :
    cacheHas(cache, "state", u) =>
      \A item \in Needs(cacheGet(cache, "state", u)) : cacheHas(cache, item, u)

\* C18: handling an event of a user, under any interleaving with the pending
\* remote calls of that user and of the others, leaves every session entry
\* (state and scratch) of every other user unchanged.
C18_OtherSessionsUntouched ==
  [][\A b \in Users :
       b # ev'.user => SessionOf(cache', b) = SessionOf(cache, b)
    ]_vars

\* a call of user 1 has just settled and cleared or rewritten the session of
\* user 1 while user 2 holds a movie list and has a call of its own in flight
C18_Witness ==
  /\ ev.kind = "done" /\ ev.user = 1
  /\ cacheHas(cache, "state", 2) /\ cacheHas(cache, "movieList", 2)
  /\ CallsOf(calls, 2) > 0

SettledCalls ==
  {c \in BagToSet(calls) :
     c.op = ev'.text /\ c.u = ev'.user /\ CopiesIn(c, calls') < CopiesIn(c, calls)}

\* C21: a label of the cached profile list sent in ProfileSelectionPending
\* requests a catalog add of the selected movie with that profile; when the
\* add settles, with success or failure, the user is in state None with the
\* session scratch cleared and has got exactly one reply.
C21_ProfileAdds ==
  [][LET u == ev'.user
         profileList == cacheGet(cache, "movieProfileList", u)
         movieList == cacheGet(cache, "movieList", u)
         movieId == cacheGet(cache, "movieId", u)
     IN /\ (/\ ev'.kind = "text"
            /\ cacheGet(cache, "state", u) = PROFILE
            /\ cacheHas(cache, "movieProfileList", u)
            /\ cacheHas(cache, "movieList", u) /\ cacheHas(cache, "movieId", u)
            /\ \E k \in 1..Len(profileList) : profileList[k].label = ev'.text
            /\ \E m \in 1..Len(movieList) : movieList[m].id = movieId) =>
             \E c \in BagToSet(calls') :
                /\ c.op = "movie.add" /\ c.u = u
                /\ CopiesIn(c, calls') > CopiesIn(c, calls)
                /\ c.movie.id = movieId
                /\ \E k \in 1..Len(profileList) :
                      profileList[k].label = ev'.text /\ profileList[k].hash = c.q
        /\ (ev'.kind = "done" /\ ev'.text = "movie.add") =>
             /\ ~cacheHas(cache', "state", u)
             /\ \A item \in {"movieId", "movieList", "movieProfileList"} :
                   ~cacheHas(cache', item, u)
             /\ Len(out') = 1
             /\ out'[1].err <=> ~(ev'.res.ok /\ ev'.res.success)
    ]_vars

\* C22: in MovieSelectionPending, free text that matches no cached label
\* gives an error and leaves the state unchanged; free text that matches one
\* starts the check of the catalog, which leads to SearchPending with an
\* error if the catalog holds an entry with the same external id, and
\* otherwise to the fetch of the profiles, which caches the enabled profiles
\* and leads to ProfileSelectionPending.
C22_MovieSelection ==
  [][LET u == ev'.user
         movieList == cacheGet(cache, "movieList", u)
         matching == {m \in 1..Len(movieList) : movieList[m].keyboard_value = ev'.text}
         inMovie == /\ ev'.kind = "text"
                    /\ cacheGet(cache, "state", u) = MOVIE
                    /\ cacheHas(cache, "movieList", u)
     IN /\ (inMovie /\ matching = {}) =>
             HasError(out') /\ cache' = cache /\ calls' = calls
        /\ (inMovie /\ matching # {}) =>
             \E c \in BagToSet(calls') :
                /\ c.op = "media.list" /\ c.u = u
                /\ CopiesIn(c, calls') > CopiesIn(c, calls)
                /\ c.movie.keyboard_value = ev'.text
        /\ (ev'.kind = "done" /\ ev'.text = "media.list" /\ ev'.res.ok) =>
             \A c \in SettledCalls :
                IF \E k \in 1..Len(ev'.res.movies) : ev'.res.movies[k] = c.movie.movie_id
                THEN /\ cacheGet(cache', "state", u) = MOVIE_SEARCH
                     /\ HasError(out')
                     /\ CallsOf(calls', u) < CallsOf(calls, u)
                ELSE /\ cacheGet(cache', "movieId", u) = c.movie.id
                     /\ \E d \in BagToSet(calls') :
                           /\ d.op = "profile.list" /\ d.u = u
                           /\ CopiesIn(d, calls') > CopiesIn(d, calls)
        /\ (/\ ev'.kind = "done" /\ ev'.text = "profile.list"
            /\ ev'.res.ok /\ ev'.res.has
            /\ cacheHas(cache, "movieList", u)) =>
             LET enabled == SelectSeq(ev'.res.list, LAMBDA item : ~item.hide)
                 profileList == cacheGet(cache', "movieProfileList", u)
             IN /\ cacheGet(cache', "state", u) = PROFILE
                /\ cacheHas(cache', "movieProfileList", u)
                /\ Len(profileList) = Len(enabled)
                /\ \A k \in 1..Len(enabled) :
                      /\ profileList[k].label = enabled[k].label
                      /\ profileList[k].hash = enabled[k].hash
    ]_vars

\* the profiles have just been fetched for a selected movie: the two enabled
\* ones of three are cached and the user is asked to pick one
C22_Witness ==
  /\ ev.kind = "done" /\ ev.text = "profile.list" /\ ev.res.ok
  /\ Len(ev.res.list) = 3
  /\ cacheGet(cache, "state", ev.user) = PROFILE
  /\ Len(cacheGet(cache, "movieProfileList", ev.user)) = 2
  /\ cacheHas(cache, "movieId", ev.user)

\* the session states the switch of the message handler has a case for
HandledStates == {MOVIE_SEARCH, MOVIE, PROFILE, REVOKE_CONFIRM, UNREVOKE, UNREVOKE_CONFIRM}

FailureTexts ==
  {"notAuthorized", "adminOnly", "alreadyAuthorized", "isRevoked", "invalidPassword",
   "noState", "unknownState", "movieNotFound", "profileNotFound",
   "searchAgain", "tryAgain", "upstreamError", "movieExists", "noProfiles",
   "movieAddFail", "couldNotFind", "queryNoResults"}

\* C24: every reply that reports a failure carries the error marker, and no
\* other reply carries it.
C24_ErrorMarker ==
  \A k \in 1..Len(out) : out[k].err <=> out[k].text \in FailureTexts

====
